---------------------------- MODULE Spec2Model ----------------------------
(***************************************************************************)
(* Model of koishi-plugin-ollama's chat subsystem (src/src/index.ts):      *)
(* the ChatContext classes, the chatContexts store, the chat middleware    *)
(* and the resetChat command.                                              *)
(*                                                                         *)
(* JavaScript runs each handler to its next await without interruption, so *)
(* the middleware is two atomic steps: everything up to `await             *)
(* this.api.chat(...)`, and the continuation (the try body after the await *)
(* or the catch block).  Strings are TLA+ strings, which TLC treats as     *)
(* sequences of characters (Len, \o, SubSeq).                              *)
(*                                                                         *)
(* What lies outside src/ is taken as follows.  koishi: session.uid and    *)
(* session.gid never coincide, so a source is a guild or a one-to-one      *)
(* conversation for good; session.messageId is unique.  ollama: api.chat   *)
(* resolves with a message { role: "assistant", content } or rejects with  *)
(* an error whose cause may carry a code.  The texts of the model hold no  *)
(* character that JSON.stringify escapes.                                  *)
(*                                                                         *)
(* aud, trail and ev are history variables: they record what the handlers  *)
(* did and never influence what they do.                                   *)
(***************************************************************************)
EXTENDS Integers, Sequences, FiniteSets

VARIABLES
    chatContexts,   \* OllamaService.chatContexts: source |-> heap address, 0 = no entry
    heap,           \* the ChatContext objects ever constructed, by address
    calls,          \* middleware invocations suspended at `await this.api.chat`
    nextId,         \* session.messageId of the next inbound message
    resets,         \* resetChat commands run so far
    aud,            \* history variable: per ChatContext object, what was done to it
    trail,          \* history variable: per inbound message, how it was handled
    ev              \* history variable: the handler step that produced this state

vars == <<chatContexts, heap, calls, nextId, resets, aud, trail, ev>>

----------------------------------------------------------------------------
(* Bounds of the model *)

\* inbound messages per behaviour of Spec
MaxMsgs == 2
\* inbound messages per behaviour of SpecSerial
MaxSerialMsgs == 3
\* inbound messages per behaviour of SpecLong (past the 100-entry cap)
MaxLong == 102
\* resetChat commands per behaviour
MaxResets == 1
\* resetChat commands per behaviour of SpecResets (the same conversation reset again)
MaxRepeatedResets == 2

----------------------------------------------------------------------------
(* Values *)

\* config.tooLongThreshold (its default)
tooLongThreshold == 100
\* GuildChatContext.trace: the cap on tracedMsg
PendingCap == 100
\* the literal of session.content.startsWith("@Koishi")
BotPrefix == "@Koishi"
\* session.bot.userId
BotId == "bot"

RECURSIVE Rep(_, _)
Rep(s, n) == IF n = 0 THEN "" ELSE s \o Rep(s, n - 1)

\* decimal rendering of a natural number
Digit(d) == SubSeq("0123456789", d + 1, d + 1)
RECURSIVE Decimal(_)
Decimal(n) == IF n < 10 THEN Digit(n) ELSE Decimal(n \div 10) \o Digit(n % 10)

\* new Date(timestamp).toString(): a rendering with one-second resolution
DateToString(ts) == "Date " \o Decimal(ts)

\* the JavaScript value undefined (PrivateChatContext.tracedMsg before any trace)
Undefined == [undefined |-> TRUE]
\* JSON.stringify(undefined) is undefined, not a string
UndefinedContent == "undefined"

Quote(s) == "\"" \o s \o "\""

\* JSON.stringify of one UserMessage
StringifyUserMessage(m) ==
    "{\"id\":" \o Quote(m.id) \o ",\"name\":" \o Quote(m.name)
        \o ",\"time\":" \o Quote(m.time) \o ",\"msg\":" \o Quote(m.msg) \o "}"

\* the elements of an array, stringified and joined by commas (by halves, to keep the
\* evaluation shallow)
RECURSIVE StringifyElements(_)
StringifyElements(ms) ==
    IF Len(ms) = 0 THEN ""
    ELSE IF Len(ms) = 1 THEN StringifyUserMessage(ms[1])
    ELSE LET half == Len(ms) \div 2
         IN  StringifyElements(SubSeq(ms, 1, half)) \o ","
                 \o StringifyElements(SubSeq(ms, half + 1, Len(ms)))

\* JSON.stringify of a UserMessage[]
StringifyArray(ms) == "[" \o StringifyElements(ms) \o "]"

\* String.prototype.startsWith
startsWith(s, p) == Len(s) >= Len(p) /\ SubSeq(s, 1, Len(p)) = p

\* Array.prototype.pop: removes the last element, does nothing on an empty array
Pop(a) == IF a = <<>> THEN a ELSE SubSeq(a, 1, Len(a) - 1)

Last(a) == a[Len(a)]

----------------------------------------------------------------------------
(* class PrivateChatContext, class GuildChatContext *)

NewPrivateChatContext == [kind |-> "private", tracedMsg |-> Undefined, history |-> <<>>]
NewGuildChatContext == [kind |-> "guild", tracedMsg |-> <<>>, history |-> <<>>]

PrivateTrace(c, message) == [c EXCEPT !.tracedMsg = message]

\* faulty variant: GuildTrace that evicts the newest entry on overflow
GuildTraceEvictsNewest(c, message) ==
    LET pushed == Append(c.tracedMsg, message)
    IN  [c EXCEPT !.tracedMsg = IF Len(pushed) > PendingCap THEN Pop(pushed) ELSE pushed]

GuildTrace(c, message) ==
    LET pushed == Append(c.tracedMsg, message)
    IN  [c EXCEPT !.tracedMsg = IF Len(pushed) > PendingCap THEN Tail(pushed) ELSE pushed]

trace(c, message) ==
    IF c.kind = "private" THEN PrivateTrace(c, message) ELSE GuildTrace(c, message)

PrivateContent(c) ==
    IF c.tracedMsg = Undefined THEN UndefinedContent ELSE StringifyUserMessage(c.tracedMsg)

\* faulty variant: prepareRequest that builds the request without appending to history
prepareRequestNoPush(c) == c

prepareRequest(c) ==
    [c EXCEPT !.history = Append(@,
        [role |-> "user",
         content |-> IF c.kind = "private" THEN PrivateContent(c)
                     ELSE StringifyArray(c.tracedMsg)])]

\* faulty variant: finishRequest that keeps the pending buffer of a guild context
finishRequestKeepsPending(c, assistant_message) ==
    [c EXCEPT !.history = Append(@, assistant_message)]

\* faulty variant: finishRequest that clears the slot of a private context too
finishRequestClearsSlot(c, assistant_message) ==
    IF c.kind = "private"
    THEN [c EXCEPT !.tracedMsg = Undefined, !.history = Append(@, assistant_message)]
    ELSE [c EXCEPT !.tracedMsg = <<>>, !.history = Append(@, assistant_message)]

\* faulty variant: finishRequest that does not record the reply
finishRequestNoPush(c, assistant_message) ==
    IF c.kind = "private" THEN c ELSE [c EXCEPT !.tracedMsg = <<>>]

finishRequest(c, assistant_message) ==
    IF c.kind = "private"
    THEN [c EXCEPT !.history = Append(@, assistant_message)]
    ELSE [c EXCEPT !.tracedMsg = <<>>, !.history = Append(@, assistant_message)]

\* faulty variant: cancelRequest that forgets to pop
cancelRequestNoPop(c) == c

\* faulty variant: cancelRequest that pops only a history holding earlier turns
cancelRequestKeepsFirst(c) == IF Len(c.history) > 1 THEN [c EXCEPT !.history = Pop(@)] ELSE c

\* faulty variant: cancelRequest that removes the oldest entry
cancelRequestShift(c) == [c EXCEPT !.history = IF @ = <<>> THEN @ ELSE Tail(@)]

cancelRequest(c) == [c EXCEPT !.history = Pop(@)]

----------------------------------------------------------------------------
(* Inbound events *)

\* one-to-one conversations exist with these users, group conversations in these guilds
PrivateUsers == {"u1"}
GuildUsers == {"u2"}
Guilds == {"g1"}

\* session.uid and session.gid: platform-qualified identifiers
Uid(u) == "p:" \o u
Gid(g) == "g:" \o g

Sources == {Uid(u) : u \in PrivateUsers} \cup {Gid(g) : g \in Guilds}

\* the keys chatContexts is ever asked about: the sources and the resetChat targets
Keys == Sources \cup {Uid(u) : u \in GuildUsers}

\* message texts: short, exactly the prefix, prefixed, and their oversized versions
ShortText == "hi"
PrefixedText == BotPrefix \o " hi"
LongText == Rep("a", tooLongThreshold + 1)
LongPrefixedText == BotPrefix \o Rep("a", tooLongThreshold)
\* every message of a one-to-one conversation triggers, whatever its text starts with
PrivateContents == {ShortText, LongText}

\* the texts and "at" elements (their ids, in order) of guild messages: one input for
\* each way through the middleware's conditions
GuildInputs ==
    {<<ShortText, <<>>>>, <<ShortText, <<BotId>>>>, <<ShortText, <<"u1">>>>,
     <<ShortText, <<"u1", BotId>>>>,
     <<PrefixedText, <<>>>>,
     <<LongText, <<>>>>, <<LongText, <<BotId>>>>, <<LongText, <<"u1", BotId>>>>,
     <<LongPrefixedText, <<>>>>}

\* a session of a one-to-one conversation (session.guildId is undefined: "")
PrivateSession(u, content, ats, id, ts) ==
    [guildId |-> "", gid |-> "", uid |-> Uid(u), userId |-> u, username |-> "name-" \o u,
     timestamp |-> ts, content |-> content, ats |-> ats, messageId |-> id]

\* a session of a group conversation
GuildSession(g, u, content, ats, id, ts) ==
    [guildId |-> g, gid |-> Gid(g), uid |-> Uid(u), userId |-> u, username |-> "name-" \o u,
     timestamp |-> ts, content |-> content, ats |-> ats, messageId |-> id]

extractUserMessage(session) ==
    [id |-> session.userId, name |-> session.username,
     time |-> DateToString(session.timestamp), msg |-> session.content]

\* const source = session.guildId ? session.gid : session.uid
SourceOf(session) == IF session.guildId # "" THEN session.gid ELSE session.uid

\* session.content.length > config.tooLongThreshold
TooLong(session) == Len(session.content) > tooLongThreshold

\* const at = h.select(session.elements, "at")[0]: the id of the first "at" element,
\* "" when there is none (at is undefined)
FirstAt(session) == IF Len(session.ats) = 0 THEN "" ELSE session.ats[1]

\* faulty variant: any "at" element counts as a mention of the bot
NotTriggeredUnlessAnyAt(session) ==
    /\ session.guildId # ""
    /\ FirstAt(session) = ""
    /\ ~startsWith(session.content, BotPrefix)

\* the guard of `return next()`: a guild message whose first "at" element is not the
\* bot and whose text does not start with the prefix
NotTriggered(session) ==
    /\ session.guildId # ""
    /\ (FirstAt(session) = "" \/ FirstAt(session) # BotId)
    /\ ~startsWith(session.content, BotPrefix)

----------------------------------------------------------------------------
(* Replies and backend outcomes *)

NoReply == [i18n |-> "", quote |-> 0, text |-> ""]
I18n(key) == [i18n |-> key, quote |-> 0, text |-> ""]
\* h("quote", { id: session.messageId }) + res.message.content
QuoteReply(id, text) == [i18n |-> "", quote |-> id, text |-> text]

\* res.message of a successful api.chat
AssistantMessages == {[role |-> "assistant", content |-> "hello"]}

\* e.cause?.code of a failed api.chat: the two codes the catch block knows, another
\* code, and "" for an error without a cause code
CauseCodes == {"UND_ERR_CONNECT_TIMEOUT", "ECONNREFUSED", "ECONNRESET", ""}

\* faulty variant: every failure is reported as an unknown error
ErrorReplyAlwaysUnknown(code) == I18n("ollama-chat.messages.unknownError")

ErrorReply(code) ==
    IF code = "UND_ERR_CONNECT_TIMEOUT" THEN I18n("ollama-chat.messages.connTimeout")
    ELSE IF code = "ECONNREFUSED" THEN I18n("ollama-chat.messages.connRefused")
    ELSE I18n("ollama-chat.messages.unknownError")

----------------------------------------------------------------------------
(* History variables *)

\* traced: the messages passed to trace since the object was made or, for a guild
\* context, since its last finishRequest; tracedIds: their messageIds; owner: for each
\* entry of history, the messageId of the turn that pushed it
NewAud == [traced |-> <<>>, tracedIds |-> <<>>, owner |-> <<>>]

\* a trail entry's reply of a turn that has not succeeded
NoMessage == [role |-> "", content |-> ""]

\* op: what the step did; id: the messageId of the message it handled; ats: the "at"
\* elements of that message (middleware steps); ctx: the ChatContext it acted on
\* cause: e.cause?.code of the error a catch block handled ("" in every other step)
Event(op, id, ats, source, ctx, reply) ==
    [op |-> op, id |-> id, ats |-> ats, source |-> source, ctx |-> ctx, reply |-> reply,
     cause |-> ""]

\* the calls in flight on the ChatContext at address o
InFlight(o) == {k \in calls : k.ctx = o}

----------------------------------------------------------------------------
(* The state after construction *)

Init ==
    /\ chatContexts = [s \in Keys |-> 0]
    /\ heap = <<>>
    /\ calls = {}
    /\ nextId = 1
    /\ resets = 0
    /\ aud = <<>>
    /\ trail = <<>>
    /\ ev = Event("init", 0, <<>>, "", 0, NoReply)

----------------------------------------------------------------------------
(* ctx.middleware(async (session, next) => ...) up to the await *)

\* the entry of trail for a message
Handled(session, o, outcome, before, overlap) ==
    [message |-> extractUserMessage(session), ctx |-> o, outcome |-> outcome,
     before |-> before, overlap |-> overlap, ownPop |-> TRUE, reply |-> NoMessage]

\* faulty variant: a lookup that never finds the context
HasContextNever(source) == FALSE

\* this.chatContexts.has(source)
HasContext(source) == chatContexts[source] # 0

\* faulty variant: the message is traced whatever its length
TraceAlways(c, session) == trace(c, extractUserMessage(session))

\* faulty variant: only the messages that do not trigger are traced
TraceOnlyUntriggered(c, session) ==
    IF TooLong(session) \/ ~NotTriggered(session) THEN c
    ELSE trace(c, extractUserMessage(session))

\* if (!tooLong) chatContext.trace(userMessage)
TraceUnlessTooLong(c, session) ==
    IF TooLong(session) THEN c ELSE trace(c, extractUserMessage(session))

Middleware(session) ==
    LET source == SourceOf(session)
        has == HasContext(source)
        \* if (!this.chatContexts.has(source)) this.chatContexts.set(source, new ...)
        o == IF has THEN chatContexts[source] ELSE Len(heap) + 1
        heap1 == IF has THEN heap
                 ELSE Append(heap, IF session.guildId # "" THEN NewGuildChatContext
                                   ELSE NewPrivateChatContext)
        aud1 == IF has THEN aud ELSE Append(aud, NewAud)
        tooLong == TooLong(session)
        userMessage == extractUserMessage(session)
        heap2 == [heap1 EXCEPT ![o] = TraceUnlessTooLong(@, session)]
        aud2 == IF tooLong THEN aud1
                ELSE [aud1 EXCEPT ![o].traced = Append(@, userMessage),
                                  ![o].tracedIds = Append(@, session.messageId)]
    IN  /\ chatContexts' = [chatContexts EXCEPT ![source] = o]
        /\ nextId' = session.messageId + 1
        /\ resets' = resets
        /\ \/ \* return next()
              /\ NotTriggered(session)
              /\ heap' = heap2
              /\ aud' = aud2
              /\ calls' = calls
              /\ trail' = Append(trail, Handled(session, o, "next", <<>>, {}))
              /\ ev' = Event("next", session.messageId, session.ats, source, o, NoReply)
           \/ \* return session.i18n("ollama-chat.messages.contentTooLong")
              /\ ~NotTriggered(session)
              /\ tooLong
              /\ heap' = heap2
              /\ aud' = aud2
              /\ calls' = calls
              /\ trail' = Append(trail, Handled(session, o, "tooLong", <<>>, {}))
              /\ ev' = Event("tooLong", session.messageId, session.ats, source, o,
                             I18n("ollama-chat.messages.contentTooLong"))
           \/ \* const history = chatContext.prepareRequest(); await this.api.chat(...)
              /\ ~NotTriggered(session)
              /\ ~tooLong
              /\ heap' = [heap2 EXCEPT ![o] = prepareRequest(@)]
              /\ aud' = [aud2 EXCEPT ![o].owner = Append(@, session.messageId)]
              /\ calls' = calls \cup {[id |-> session.messageId, source |-> source, ctx |-> o]}
              /\ trail' = Append(trail, Handled(session, o, "await", heap2[o].history,
                                                {k.id : k \in InFlight(o)}))
              /\ ev' = Event("await", session.messageId, session.ats, source, o, NoReply)

----------------------------------------------------------------------------
(* the continuations of the middleware after the await *)

\* faulty variant: the continuation looks its context up in the store again
ChatResolveLooksUp(k, message) ==
    LET o == IF chatContexts[k.source] # 0 THEN chatContexts[k.source] ELSE k.ctx
    IN  /\ k \in calls
        /\ heap' = [heap EXCEPT ![o] = finishRequest(@, message)]
        /\ calls' = calls \ {k}
        /\ aud' = [aud EXCEPT ![o].owner = Append(@, k.id),
                              ![o].traced = IF heap[o].kind = "guild" THEN <<>> ELSE @,
                              ![o].tracedIds = IF heap[o].kind = "guild" THEN <<>> ELSE @]
        /\ trail' = [trail EXCEPT ![k.id].outcome = "ok", ![k.id].reply = message]
        /\ ev' = Event("finish", k.id, <<>>, k.source, k.ctx,
                       QuoteReply(k.id, message.content))
        /\ UNCHANGED <<chatContexts, nextId, resets>>

\* faulty variant: the reply is recorded in every context of the store
ChatResolveEverywhere(k, message) ==
    /\ k \in calls
    /\ heap' = [o \in DOMAIN heap |-> finishRequest(heap[o], message)]
    /\ calls' = calls \ {k}
    /\ aud' = [aud EXCEPT ![k.ctx].owner = Append(@, k.id),
                          ![k.ctx].traced = IF heap[k.ctx].kind = "guild" THEN <<>> ELSE @,
                          ![k.ctx].tracedIds = IF heap[k.ctx].kind = "guild" THEN <<>> ELSE @]
    /\ trail' = [trail EXCEPT ![k.id].outcome = "ok", ![k.id].reply = message]
    /\ ev' = Event("finish", k.id, <<>>, k.source, k.ctx,
                   QuoteReply(k.id, message.content))
    /\ UNCHANGED <<chatContexts, nextId, resets>>

\* chatContext.finishRequest(res.message); return h("quote", ...) + res.message.content
ChatResolve(k, message) ==
    /\ k \in calls
    /\ heap' = [heap EXCEPT ![k.ctx] = finishRequest(@, message)]
    /\ calls' = calls \ {k}
    /\ aud' = [aud EXCEPT ![k.ctx].owner = Append(@, k.id),
                          ![k.ctx].traced = IF heap[k.ctx].kind = "guild" THEN <<>> ELSE @,
                          ![k.ctx].tracedIds = IF heap[k.ctx].kind = "guild" THEN <<>> ELSE @]
    /\ trail' = [trail EXCEPT ![k.id].outcome = "ok", ![k.id].reply = message]
    /\ ev' = Event("finish", k.id, <<>>, k.source, k.ctx,
                   QuoteReply(k.id, message.content))
    /\ UNCHANGED <<chatContexts, nextId, resets>>

\* faulty variant: a failed call is cancelled and then awaited again
ChatRejectRetries(k, code) ==
    /\ k \in calls
    /\ trail[k.id].outcome = "await"
    /\ heap' = [heap EXCEPT ![k.ctx] = cancelRequest(@)]
    /\ calls' = calls
    /\ aud' = [aud EXCEPT ![k.ctx].owner = Pop(@)]
    /\ trail' = [trail EXCEPT ![k.id].outcome = "fail"]
    /\ ev' = Event("cancel", k.id, <<>>, k.source, k.ctx, ErrorReply(code))
    /\ UNCHANGED <<chatContexts, nextId, resets>>

\* catch (e) { chatContext.cancelRequest(); ... return session.i18n(...) }
ChatReject(k, code) ==
    /\ k \in calls
    /\ heap' = [heap EXCEPT ![k.ctx] = cancelRequest(@)]
    /\ calls' = calls \ {k}
    /\ aud' = [aud EXCEPT ![k.ctx].owner = Pop(@)]
    /\ trail' = [trail EXCEPT ![k.id].outcome = "fail",
                              ![k.id].ownPop =
                                  IF aud[k.ctx].owner = <<>> \/ heap[k.ctx].history = <<>>
                                  THEN FALSE
                                  ELSE /\ Last(aud[k.ctx].owner) = k.id
                                       /\ Last(heap[k.ctx].history).role = "user"]
    /\ ev' = [Event("cancel", k.id, <<>>, k.source, k.ctx, ErrorReply(code))
                  EXCEPT !.cause = code]
    /\ UNCHANGED <<chatContexts, nextId, resets>>

----------------------------------------------------------------------------
(* ctx.command("resetChat").option("user", ...).action(...) *)

\* faulty variant: resetChat that empties the whole store
ResetChatClearsStore(target, byUser) ==
    /\ chatContexts' = [key \in Keys |-> 0]
    /\ resets' = resets + 1
    /\ ev' = Event("reset", 0, <<>>, target, chatContexts[target],
                   I18n(IF byUser THEN ".successWithTarget" ELSE ".success"))
    /\ UNCHANGED <<heap, calls, nextId, aud, trail>>

\* faulty variant: resetChat that answers without deleting anything
ResetChatKeepsEntry(target, byUser) ==
    /\ resets' = resets + 1
    /\ ev' = Event("reset", 0, <<>>, target, chatContexts[target],
                   I18n(IF byUser THEN ".successWithTarget" ELSE ".success"))
    /\ UNCHANGED <<chatContexts, heap, calls, nextId, aud, trail>>

\* target is options.user when given (byUser), else the session's gid or uid
ResetChat(target, byUser) ==
    /\ chatContexts' = [chatContexts EXCEPT ![target] = 0]
    /\ resets' = resets + 1
    /\ ev' = Event("reset", 0, <<>>, target, chatContexts[target],
                   I18n(IF byUser THEN ".successWithTarget" ELSE ".success"))
    /\ UNCHANGED <<heap, calls, nextId, aud, trail>>

----------------------------------------------------------------------------
(* Inbound events of a behaviour *)

\* session.timestamp of the message with this id when two messages arrive per second:
\* consecutive messages can carry the same time or different times
Clock(id) == id \div 2

\* the sessions that can arrive with message id `id`
Sessions(id) ==
    {PrivateSession(u, c, <<>>, id, Clock(id)) : u \in PrivateUsers, c \in PrivateContents}
        \cup {GuildSession(g[1], g[2], c[1], c[2], id, Clock(id)) :
                 g \in Guilds \X GuildUsers, c \in GuildInputs}

\* no call of the conversation is suspended at the await
Idle(source) == \A k \in calls : k.source # source

Receive ==
    /\ nextId <= MaxMsgs
    /\ \E session \in Sessions(nextId) : Middleware(session)

\* the messages of one conversation are handled strictly one at a time
ReceiveSerial ==
    /\ nextId <= MaxSerialMsgs
    /\ \E session \in Sessions(nextId) : Idle(SourceOf(session)) /\ Middleware(session)

\* one guild receiving one short message per second; the bot is mentioned only once
\* the pending buffer is about to be full or is full
LongSessions(id) ==
    UNION {{GuildSession(g[1], g[2], ShortText, ats, id, id) :
                ats \in IF /\ HasContext(Gid(g[1]))
                           /\ Len(heap[chatContexts[Gid(g[1])]].tracedMsg) >= PendingCap - 1
                        THEN {<<>>, <<BotId>>} ELSE {<<>>}} :
           g \in Guilds \X GuildUsers}

ReceiveLong ==
    /\ nextId <= MaxLong
    /\ \E session \in LongSessions(nextId) : Middleware(session)

Resolve == \E k \in calls : \E message \in AssistantMessages : ChatResolve(k, message)

Reject == \E k \in calls : \E code \in CauseCodes : ChatReject(k, code)

\* resetChat in a conversation resets that conversation; resetChat -u resets the
\* one-to-one conversation of the named user
Reset ==
    /\ resets < MaxResets
    /\ \/ \E target \in Sources : ResetChat(target, FALSE)
       \/ \E u \in PrivateUsers \cup GuildUsers : ResetChat(Uid(u), TRUE)

Next == Receive \/ Resolve \/ Reject \/ Reset

Spec == Init /\ [][Next]_vars

NextSerial == ReceiveSerial \/ Resolve \/ Reject \/ Reset

SpecSerial == Init /\ [][NextSerial]_vars

NextLong == ReceiveLong \/ Resolve \/ Reject

SpecLong == Init /\ [][NextLong]_vars

\* the same guild, its messages handled strictly one at a time
ReceiveLongSerial ==
    /\ nextId <= MaxLong
    /\ \E session \in LongSessions(nextId) : Idle(SourceOf(session)) /\ Middleware(session)

NextLongSerial == ReceiveLongSerial \/ Resolve \/ Reject

SpecLongSerial == Init /\ [][NextLongSerial]_vars

\* resetChat run repeatedly, on the same conversation or on another one
ResetRepeated ==
    /\ resets < MaxRepeatedResets
    /\ \/ \E target \in Sources : ResetChat(target, FALSE)
       \/ \E u \in PrivateUsers \cup GuildUsers : ResetChat(Uid(u), TRUE)

NextResets == Receive \/ Resolve \/ Reject \/ ResetRepeated

SpecResets == Init /\ [][NextResets]_vars

\* every api.chat promise is eventually settled: the backend returns or fails
NextSettling == Receive \/ Resolve \/ Reject

SpecSettling == Init /\ [][NextSettling]_vars /\ WF_vars(Resolve \/ Reject)

----------------------------------------------------------------------------
(* Properties *)

\* the ChatContext objects constructed so far
Objects == DOMAIN heap

\* the inbound messages handled with the ChatContext at address o, by messageId
MessagesOf(o) == {i \in DOMAIN trail : trail[i].ctx = o}

\* the triggered turns on o that succeeded, and those that failed
Succeeded(o) == {i \in MessagesOf(o) : trail[i].outcome = "ok"}
Failed(o) == {i \in MessagesOf(o) : trail[i].outcome = "fail"}

\* the step is the catch block of the call k
IsCancelOf(k) == k \in calls /\ k \notin calls' /\ ev'.op = "cancel" /\ ev'.id = k.id

\* the step is the success continuation of the call k
IsFinishOf(k) == k \in calls /\ k \notin calls' /\ ev'.op = "finish" /\ ev'.id = k.id

\* C1: with the messages of a conversation handled one at a time, the catch block of a
\* failed turn leaves the context's history equal to the history it had immediately
\* before that turn's prepareRequest
C1_FailedTurnRestoresHistory ==
    [][\A k \in calls :
          IsCancelOf(k) => heap'[k.ctx].history = trail[k.id].before]_vars

\* a turn has just failed on a context whose history held an earlier successful turn
C1_Witness ==
    /\ ev.op = "cancel"
    /\ trail[ev.id].before # <<>>
    /\ heap[ev.ctx].history = trail[ev.id].before

\* C2: with the messages of a conversation handled one at a time, the history of a
\* context with no call in flight has twice as many entries as turns succeeded on it,
\* and one more while a call is in flight
C2_HistoryLengthTwiceSuccesses ==
    \A o \in Objects :
        Len(heap[o].history) = 2 * Cardinality(Succeeded(o)) + Cardinality(InFlight(o))

\* a context after a successful turn, a failed turn and an oversized message
C2_Witness ==
    \E o \in Objects :
        /\ InFlight(o) = {}
        /\ Succeeded(o) # {}
        /\ Failed(o) # {}
        /\ \E i \in MessagesOf(o) : trail[i].outcome = "tooLong"
        /\ Len(heap[o].history) = 2

\* entries alternate user, assistant, starting with user and ending with assistant
Alternates(history) ==
    /\ Len(history) % 2 = 0
    /\ \A i \in DOMAIN history :
          history[i].role = IF i % 2 = 1 THEN "user" ELSE "assistant"

\* C4: with the messages of a conversation handled one at a time, the history of a
\* context with no call in flight holds no orphaned user turn: its entries alternate
\* user, assistant
C4_NoOrphanedUserTurn ==
    \A o \in Objects : InFlight(o) = {} => Alternates(heap[o].history)

\* a context at rest after a failed first turn followed by a successful turn
C4_Witness ==
    \E o \in Objects :
        /\ InFlight(o) = {}
        /\ \E i \in Failed(o), j \in Succeeded(o) : i < j
        /\ Len(heap[o].history) = 2

\* a whole turn applied to a context with nothing else in between: trace,
\* prepareRequest, then finishRequest or cancelRequest as the turn i ended
SerialTurn(c, i) ==
    LET prepared == prepareRequest(trace(c, trail[i].message))
    IN  IF trail[i].outcome = "ok" THEN finishRequest(prepared, trail[i].reply)
        ELSE cancelRequest(prepared)

\* the history of a new context of o's class after the turns i, then j, in series
SerialHistory(o, i, j) ==
    LET new == IF heap[o].kind = "guild" THEN NewGuildChatContext ELSE NewPrivateChatContext
    IN  SerialTurn(SerialTurn(new, i), j).history

\* i and j are the only messages of the context o, two different messages that both
\* triggered; j's prepareRequest ran while i's call was awaited; both calls are over,
\* one succeeded, and the cancelRequest of the other removed an entry that was not
\* the user entry of its own turn
CorruptingPair(o, i, j) ==
    /\ MessagesOf(o) = {i, j}
    /\ i \in trail[j].overlap
    /\ trail[i].message # trail[j].message
    /\ {trail[i].outcome, trail[j].outcome} = {"ok", "fail"}
    /\ \E f \in {i, j} : trail[f].outcome = "fail" /\ ~trail[f].ownPop

\* C3: when two triggered turns of one context overlap and a cancelRequest removes an
\* entry other than its own turn's user entry, the history after both turns differs
\* from the history of both serial executions of the two turns
C3_OverlapCorruptsHistory ==
    \A o \in Objects : \A i, j \in MessagesOf(o) :
        CorruptingPair(o, i, j) =>
            heap[o].history \notin {SerialHistory(o, i, j), SerialHistory(o, j, i)}

\* the corrupted state: the first turn failed while the second was in flight and
\* popped the second turn's user entry, then the second turn succeeded
C3_Witness ==
    \E o \in Objects : \E i, j \in MessagesOf(o) :
        /\ CorruptingPair(o, i, j)
        /\ trail[i].outcome = "fail"
        /\ Len(heap[o].history) = 2
        /\ heap[o].history \notin {SerialHistory(o, i, j), SerialHistory(o, j, i)}

\* the corrupted state in which a cancelRequest popped the other turn's assistant reply
C3_WitnessReplyRemoved ==
    \E o \in Objects : \E i, j \in MessagesOf(o) :
        /\ CorruptingPair(o, i, j)
        /\ Len(heap[o].history) = 2
        /\ heap[o].history[2].role = "user"

\* the last n elements of a sequence, oldest first
LastN(a, n) == SubSeq(a, Len(a) - n + 1, Len(a))

Min(a, b) == IF a < b THEN a ELSE b

\* C5: the pending buffer of a guild context never holds more than 100 entries and is
\* always the most recent min(k, 100) of the k messages traced since it was last
\* cleared, oldest first
C5_PendingIsLast100 ==
    \A o \in Objects :
        heap[o].kind = "guild" =>
            /\ Len(heap[o].tracedMsg) <= 100
            /\ heap[o].tracedMsg =
                   LastN(aud[o].traced, Min(Len(aud[o].traced), 100))

\* after 101 traces without a clear the first traced message is gone and the other
\* 100 remain in order
C5_Witness ==
    \E o \in Objects :
        /\ heap[o].kind = "guild"
        /\ Len(aud[o].traced) = 101
        /\ Len(heap[o].tracedMsg) = 100
        /\ heap[o].tracedMsg[1] = aud[o].traced[2]
        /\ heap[o].tracedMsg[100] = aud[o].traced[101]
        /\ \A i \in 1..100 : heap[o].tracedMsg[i] # aud[o].traced[1]

\* the step is the middleware handling the inbound message with id nextId, up to
\* its return or its await
IsMiddleware == nextId' = nextId + 1

\* the message handled by a middleware step, the source it came from, and the
\* ChatContext used for it
Handling == trail'[nextId].message
HandlingSource == ev'.source
HandlingCtx == ev'.ctx

\* the text of the handled message is longer than the threshold of 100
Oversized == Len(Handling.msg) > 100

\* the conversation of the handled message is a guild
FromGuild == HandlingSource \in {Gid(g) : g \in Guilds}

\* the context of the handled message as it was before the step: the stored one, or
\* that of a conversation not seen before
ContextBefore ==
    IF chatContexts[HandlingSource] # 0 THEN heap[chatContexts[HandlingSource]]
    ELSE IF FromGuild THEN NewGuildChatContext ELSE NewPrivateChatContext

\* the step made a backend call
BackendCalled == calls' # calls

\* C6: handling an oversized message makes no backend call and leaves the history
\* and the pending buffer of its conversation's context as they were (empty for a
\* conversation not seen before), triggered or not
C6_OversizedLeavesContext ==
    [][(IsMiddleware /\ Oversized) =>
          /\ ~BackendCalled
          /\ ev'.op \in {"tooLong", "next"}
          /\ heap'[HandlingCtx].history = ContextBefore.history
          /\ heap'[HandlingCtx].tracedMsg = ContextBefore.tracedMsg
          /\ aud'[HandlingCtx].traced =
                 (IF chatContexts[HandlingSource] # 0 THEN aud[HandlingCtx].traced ELSE <<>>)
          /\ chatContexts[HandlingSource] # 0 => HandlingCtx = chatContexts[HandlingSource]]_vars

\* an oversized triggered message was answered "content too long" on a context that
\* holds an earlier turn
C6_Witness ==
    /\ ev.op = "tooLong"
    /\ Len(trail[ev.id].message.msg) > 100
    /\ Len(heap[ev.ctx].history) = 2
    /\ heap[ev.ctx].tracedMsg # Undefined

\* C7 as claimed: handling an oversized message leaves the whole state unchanged, the
\* set of identifiers in the store included
C7_OversizedChangesNothing ==
    [][(IsMiddleware /\ Oversized) =>
          /\ chatContexts' = chatContexts
          /\ heap' = heap
          /\ calls' = calls]_vars

\* C7 amended: handling an oversized message leaves the calls in flight, the store
\* entries of the other conversations and every existing context unchanged; its only
\* mutation is a new, empty context stored for a conversation not seen before
C7_OversizedOnlyCreatesContext ==
    [][(IsMiddleware /\ Oversized) =>
          /\ calls' = calls
          /\ \A key \in Keys \ {HandlingSource} : chatContexts'[key] = chatContexts[key]
          /\ chatContexts[HandlingSource] # 0 =>
                 chatContexts' = chatContexts /\ heap' = heap
          /\ chatContexts[HandlingSource] = 0 =>
                 /\ chatContexts'[HandlingSource] = Len(heap) + 1
                 /\ heap' = Append(heap, IF FromGuild THEN NewGuildChatContext
                                         ELSE NewPrivateChatContext)]_vars

\* an oversized first message has created the empty context of its conversation, and
\* an oversized message has been handled with an existing context
C7_Witness ==
    /\ Len(trail) = 2
    /\ Len(trail[1].message.msg) > 100
    /\ Len(trail[2].message.msg) > 100
    /\ trail[1].ctx = trail[2].ctx
    /\ chatContexts[ev.source] = 1
    /\ heap = <<NewPrivateChatContext>>

\* the handled message mentions the bot, or its text begins with "@Koishi"
MentionsBot == \E i \in DOMAIN ev'.ats : ev'.ats[i] = "bot"
Prefixed == Len(Handling.msg) >= 7 /\ SubSeq(Handling.msg, 1, 7) = "@Koishi"

\* C8: a backend call is made only for a message that is not oversized and is direct
\* or mentions the bot or begins with the prefix; every direct message that is not
\* oversized gets a backend call; a guild message that is not oversized and neither
\* mentions the bot nor begins with the prefix does not trigger; and a guild message
\* that is not oversized and does not trigger is appended to pending, leaves history
\* unchanged, makes no backend call and gets no reply
C8_TriggerCondition ==
    [][IsMiddleware =>
          /\ BackendCalled => ~Oversized /\ (~FromGuild \/ MentionsBot \/ Prefixed)
          /\ (~FromGuild /\ ~Oversized) => BackendCalled
          /\ (FromGuild /\ ~MentionsBot /\ ~Prefixed) => ev'.op = "next"
          /\ (FromGuild /\ ~Oversized /\ ev'.op = "next") =>
                 /\ Last(heap'[HandlingCtx].tracedMsg) = Handling
                 /\ Len(ContextBefore.tracedMsg) < 100 =>
                        heap'[HandlingCtx].tracedMsg = Append(ContextBefore.tracedMsg, Handling)
                 /\ heap'[HandlingCtx].history = ContextBefore.history
                 /\ ~BackendCalled
                 /\ ev'.reply = NoReply]_vars

\* two guild messages that did not trigger are pending, the second one naming another
\* user, with nothing in history and no reply
C8_Witness ==
    /\ ev.op = "next"
    /\ ev.ats = <<"u1">>
    /\ ev.reply = NoReply
    /\ heap[ev.ctx].kind = "guild"
    /\ Len(heap[ev.ctx].tracedMsg) = 2
    /\ heap[ev.ctx].history = <<>>
    /\ calls = {}

\* what success and failure do to a guild context: success empties the pending buffer
\* and leaves history two entries longer than before the turn (the turn's user entry
\* and the reply); failure leaves the pending buffer as it was
GuildTurnEnds ==
    /\ \A k \in calls :
          (IsFinishOf(k) /\ heap[k.ctx].kind = "guild") =>
              /\ heap'[k.ctx].tracedMsg = <<>>
              /\ Len(heap'[k.ctx].history) = Len(trail[k.id].before) + 2
              /\ heap'[k.ctx].history =
                     trail[k.id].before \o <<Last(heap[k.ctx].history), trail'[k.id].reply>>
              /\ Last(heap[k.ctx].history).role = "user"
    /\ \A k \in calls :
          (IsCancelOf(k) /\ heap[k.ctx].kind = "guild") =>
              /\ heap'[k.ctx].tracedMsg = heap[k.ctx].tracedMsg
              /\ heap'[k.ctx].tracedMsg # <<>>

\* C9 as claimed: in a guild conversation handled one message at a time,
\* prepareRequest appends to history one user entry that encodes the whole pending
\* buffer, which is all the messages traced since the last successful turn, the
\* triggering one included; success empties the pending buffer and grows history by
\* two; failure keeps the pending buffer
C9_EncodesAllSinceLastSuccess ==
    [][/\ (IsMiddleware /\ FromGuild /\ BackendCalled) =>
             /\ heap'[HandlingCtx].tracedMsg = aud'[HandlingCtx].traced
             /\ Last(heap'[HandlingCtx].tracedMsg) = Handling
             /\ heap'[HandlingCtx].history =
                    Append(ContextBefore.history,
                           [role |-> "user",
                            content |-> StringifyArray(aud'[HandlingCtx].traced)])
       /\ GuildTurnEnds]_vars

\* C9 amended: the user entry encodes the whole pending buffer, which is the most
\* recent 100 at most of the messages traced since the last successful turn, the
\* triggering one included; success empties the pending buffer and grows history by
\* two; failure keeps the pending buffer
C9_EncodesPendingBuffer ==
    [][/\ (IsMiddleware /\ FromGuild /\ BackendCalled) =>
             /\ heap'[HandlingCtx].tracedMsg =
                    LastN(aud'[HandlingCtx].traced, Min(Len(aud'[HandlingCtx].traced), 100))
             /\ Last(heap'[HandlingCtx].tracedMsg) = Handling
             /\ heap'[HandlingCtx].history =
                    Append(ContextBefore.history,
                           [role |-> "user",
                            content |-> StringifyArray(heap'[HandlingCtx].tracedMsg)])
       /\ GuildTurnEnds]_vars

\* the messages i..j of the trail, in order
RECURSIVE TrailMessages(_, _)
TrailMessages(i, j) ==
    IF i > j THEN <<>> ELSE Append(TrailMessages(i, j - 1), trail[j].message)

\* the 101st guild message triggered after 100 that did not, its request encoded the
\* messages 2..101, and its turn succeeded
C9_Witness ==
    /\ ev.op = "finish"
    /\ ev.id = 101
    /\ heap[ev.ctx].kind = "guild"
    /\ \A i \in 1..100 : trail[i].outcome = "next"
    /\ heap[ev.ctx].tracedMsg = <<>>
    /\ Len(heap[ev.ctx].history) = 2
    /\ heap[ev.ctx].history[1].content = StringifyArray(TrailMessages(2, 101))

\* C10: the slot of a private context holds the most recently traced message, or
\* undefined before any trace; prepareRequest, finishRequest and cancelRequest (which
\* trace nothing) leave it as it is
C10_SlotIsLastTraced ==
    \A o \in Objects :
        heap[o].kind = "private" =>
            heap[o].tracedMsg =
                (IF aud[o].traced = <<>> THEN Undefined ELSE Last(aud[o].traced))

\* a second, different message has overwritten the first in the slot, and the turns of
\* both have ended, one in finishRequest and one in cancelRequest
C10_Witness ==
    \E o \in Objects :
        /\ heap[o].kind = "private"
        /\ Len(aud[o].traced) = 2
        /\ aud[o].traced[1] # aud[o].traced[2]
        /\ heap[o].tracedMsg = aud[o].traced[2]
        /\ Succeeded(o) # {} /\ Failed(o) # {}
        /\ InFlight(o) = {}

\* the step is a resetChat command; its target
IsReset == resets' = resets + 1
ResetTarget == ev'.source

\* C11: resetChat always answers with a success message, never creates anything and
\* never touches a context object or a call in flight; afterwards the store has no
\* entry for the target and the entries of all other identifiers are as before; on a
\* target without an entry, a target that was just reset included, it changes nothing
C11_ResetIdempotent ==
    [][IsReset =>
          /\ ev'.reply \in {I18n(".success"), I18n(".successWithTarget")}
          /\ chatContexts'[ResetTarget] = 0
          /\ \A key \in Keys \ {ResetTarget} : chatContexts'[key] = chatContexts[key]
          /\ heap' = heap
          /\ calls' = calls
          /\ chatContexts[ResetTarget] = 0 => chatContexts' = chatContexts
          /\ (ev.op = "reset" /\ ev.source = ResetTarget) => chatContexts' = chatContexts]_vars

\* two conversations got a context each; the first was reset, which left the entry of
\* the second in place, and has just been reset a second time
C11_Witness ==
    /\ resets = 2
    /\ ev.op = "reset"
    /\ ev.ctx = 0
    /\ Len(trail) = 2
    /\ trail[1].ctx = 1 /\ trail[2].ctx = 2
    /\ chatContexts[ev.source] = 0
    /\ \E key \in Keys : chatContexts[key] = 2
    /\ \A key \in Keys : chatContexts[key] # 1

\* the conversation identifier a step works for: the source of the handled message or
\* of the completed call, or the target of the reset
StepSource == ev'.source

\* C12: whatever the interleaving, a step for one conversation identifier (handling a
\* message, completing a backend call, resetting) leaves the store entry of every other
\* identifier, and the history and pending buffer of the context stored there, as
\* they were
C12_ConversationsIndependent ==
    [][\A other \in Keys \ {StepSource} :
          /\ chatContexts'[other] = chatContexts[other]
          /\ chatContexts[other] # 0 =>
                 /\ heap'[chatContexts[other]].history = heap[chatContexts[other]].history
                 /\ heap'[chatContexts[other]].tracedMsg =
                        heap[chatContexts[other]].tracedMsg]_vars

\* a call of one conversation has just succeeded while a call of the other
\* conversation is still awaited on its stored context
C12_Witness ==
    /\ ev.op = "finish"
    /\ Len(heap[ev.ctx].history) = 2
    /\ \E k \in calls :
          /\ k.source # ev.source
          /\ chatContexts[k.source] = k.ctx
          /\ Len(heap[k.ctx].history) = 1

\* the context c holds nothing but what handling the message m put there: no history
\* or the one user entry that encodes m alone, and no pending message other than m
HoldsOnly(c, m) ==
    /\ \/ c.history = <<>>
       \/ /\ Len(c.history) = 1
          /\ c.history[1].role = "user"
          /\ c.history[1].content =
                 (IF c.kind = "guild" THEN StringifyArray(<<m>>) ELSE StringifyUserMessage(m))
    /\ c.tracedMsg \in (IF c.kind = "guild" THEN {<<>>, <<m>>} ELSE {Undefined, m})

\* C13: a store entry appears only when the middleware handles a message of an
\* identifier that has none, and then it is a newly constructed context; an entry
\* disappears only by a resetChat of its identifier and is never replaced otherwise;
\* the first message of an identifier after its reset gets a newly constructed context
\* that holds nothing from before the reset
C13_ContextLifecycle ==
    [][/\ \A key \in Keys :
             (chatContexts[key] = 0 /\ chatContexts'[key] # 0) =>
                 /\ IsMiddleware
                 /\ StepSource = key
                 /\ chatContexts'[key] = Len(heap) + 1
                 /\ Len(heap') = Len(heap) + 1
                 /\ HoldsOnly(heap'[chatContexts'[key]], Handling)
       /\ \A key \in Keys :
             (chatContexts[key] # 0 /\ chatContexts'[key] # chatContexts[key]) =>
                 IsReset /\ ResetTarget = key /\ chatContexts'[key] = 0
       /\ IsMiddleware =>
             /\ chatContexts'[StepSource] = HandlingCtx
             /\ HandlingCtx # 0
       /\ (IsMiddleware /\ ev.op = "reset" /\ ev.source = StepSource) =>
             /\ HandlingCtx \notin DOMAIN heap
             /\ HoldsOnly(heap'[HandlingCtx], Handling)]_vars

\* a guild whose first message was left pending was reset; its second message
\* triggered on a new context, and the request encodes the second message alone
C13_Witness ==
    /\ ev.op = "await"
    /\ ev.ctx = 2
    /\ resets >= 1
    /\ chatContexts[ev.source] = 2
    /\ Len(trail) = 2
    /\ heap[1].kind = "guild" /\ heap[2].kind = "guild"
    /\ heap[1].tracedMsg = <<trail[1].message>>
    /\ heap[2].tracedMsg = <<trail[2].message>>
    /\ trail[1].message # trail[2].message
    /\ heap[2].history[1].content = StringifyArray(<<trail[2].message>>)

\* the handled message meets the trigger condition: it is direct, or its first "at"
\* element is the bot, or its text begins with "@Koishi"
TriggeredInput ==
    \/ ~FromGuild
    \/ Prefixed
    \/ Len(ev'.ats) > 0 /\ ev'.ats[1] = "bot"

\* the turns whose backend call is awaited
Awaited == {i \in DOMAIN trail : trail[i].outcome = "await"}

\* a triggered, not oversized message: one prepareRequest (one user entry more in
\* history) and one backend call, which is now awaited; any other message: no call
OneRequestPerTurn ==
    /\ (IsMiddleware /\ ~Oversized /\ TriggeredInput) =>
          /\ ev'.op = "await"
          /\ Len(heap'[HandlingCtx].history) = Len(ContextBefore.history) + 1
          /\ Last(heap'[HandlingCtx].history).role = "user"
          /\ [id |-> nextId, source |-> StepSource, ctx |-> HandlingCtx] \notin calls
          /\ calls' = calls \cup {[id |-> nextId, source |-> StepSource, ctx |-> HandlingCtx]}
          /\ Awaited' = Awaited \cup {nextId}
    /\ (IsMiddleware /\ ~(~Oversized /\ TriggeredInput)) =>
          calls' = calls /\ Awaited' = Awaited

\* a call ends once, in finishRequest (one entry more) or in cancelRequest (the last
\* entry removed, if any), is not made again, and an ended turn stays ended
OneEndPerCall ==
    /\ \A k \in calls :
          k \notin calls' =>
              /\ k.id \in Awaited
              /\ calls' = calls \ {k}
              /\ Awaited' = Awaited \ {k.id}
              /\ \/ /\ ev'.op = "finish"
                    /\ trail'[k.id].outcome = "ok"
                    /\ heap'[k.ctx].history = Append(heap[k.ctx].history, trail'[k.id].reply)
                 \/ /\ ev'.op = "cancel"
                    /\ trail'[k.id].outcome = "fail"
                    /\ heap'[k.ctx].history = Pop(heap[k.ctx].history)
    /\ \A i \in DOMAIN trail :
          trail[i].outcome # "await" => trail'[i].outcome = trail[i].outcome
    /\ \A i \in Awaited \ Awaited' : \E k \in calls \ calls' : k.id = i
    /\ ~IsMiddleware => Awaited' \subseteq Awaited /\ calls' \subseteq calls

\* C14: every triggered, not oversized turn does one prepareRequest and one backend
\* call, then ends once, in finishRequest or in cancelRequest, with no retry; each
\* awaited turn has exactly one call in flight; and when every backend call
\* eventually returns or fails, every awaited turn eventually ends
C14_TurnProtocol ==
    /\ [][OneRequestPerTurn /\ OneEndPerCall]_vars
    /\ [](/\ {k.id : k \in calls} = Awaited
          /\ Cardinality(calls) = Cardinality(Awaited))
    /\ \A i \in 1..MaxMsgs :
          (i \in Awaited) ~> (i \in DOMAIN trail /\ trail[i].outcome \in {"ok", "fail"})

\* two overlapping turns of one context have both ended, one in finishRequest and
\* one in cancelRequest
C14_Witness ==
    /\ calls = {}
    /\ Len(trail) = 2
    /\ trail[1].ctx = trail[2].ctx
    /\ 1 \in trail[2].overlap
    /\ {trail[1].outcome, trail[2].outcome} = {"ok", "fail"}

\* how a step may change the history of the existing context at address o: not at
\* all, or by the prepareRequest of the handled message (one user entry appended), or
\* by a finishRequest (the reply appended), or by a cancelRequest (the last entry
\* removed); the entries that stay keep their place and their content
HistoryStep(o) ==
    \/ heap'[o].history = heap[o].history
    \/ /\ ev'.op = "await"
       /\ ev'.ctx = o
       /\ Len(heap'[o].history) = Len(heap[o].history) + 1
       /\ SubSeq(heap'[o].history, 1, Len(heap[o].history)) = heap[o].history
       /\ Last(heap'[o].history).role = "user"
    \/ /\ ev'.op = "finish"
       /\ ev'.ctx = o
       /\ heap'[o].history = Append(heap[o].history, trail'[ev'.id].reply)
    \/ /\ ev'.op = "cancel"
       /\ ev'.ctx = o
       /\ heap[o].history # <<>>
       /\ heap'[o].history = SubSeq(heap[o].history, 1, Len(heap[o].history) - 1)

\* C15: the history of a context changes only by prepareRequest (one user entry
\* appended), finishRequest (one entry appended) and cancelRequest (exactly the last
\* entry removed); a step that only traces, passes an untriggered message on, rejects
\* an oversized message or resets a conversation changes no history; entries already
\* in a history are never modified or reordered
C15_HistoryChangesOnlyAtEnd ==
    [][/\ \A o \in DOMAIN heap : HistoryStep(o)
       /\ ev'.op \in {"next", "tooLong", "reset"} =>
             \A o \in DOMAIN heap : heap'[o].history = heap[o].history
       /\ \A o \in DOMAIN heap' \ DOMAIN heap :
             heap'[o].history = <<>> \/ (ev'.op = "await" /\ Len(heap'[o].history) = 1)
       /\ ev'.op = "await" => Len(heap'[ev'.ctx].history) = Len(ContextBefore.history) + 1
       /\ ev'.op = "finish" => Len(heap'[ev'.ctx].history) = Len(heap[ev'.ctx].history) + 1
       /\ ev'.op = "cancel" => Len(heap'[ev'.ctx].history) = Len(heap[ev'.ctx].history) - 1]_vars

\* of two overlapping turns of a one-to-one conversation the first has failed: its
\* cancelRequest removed the last entry, the user entry of the second turn, and the
\* entry of the first turn is still in place
C15_Witness ==
    /\ ev.op = "cancel"
    /\ ev.id = 1
    /\ \E k \in calls : k.id = 2 /\ k.ctx = ev.ctx
    /\ heap[ev.ctx].kind = "private"
    /\ trail[1].message # trail[2].message
    /\ heap[ev.ctx].history =
           <<[role |-> "user", content |-> StringifyUserMessage(trail[1].message)]>>

\* the replies of the catch block
ConnTimeout == [i18n |-> "ollama-chat.messages.connTimeout", quote |-> 0, text |-> ""]
ConnRefused == [i18n |-> "ollama-chat.messages.connRefused", quote |-> 0, text |-> ""]
UnknownError == [i18n |-> "ollama-chat.messages.unknownError", quote |-> 0, text |-> ""]

\* C16: the step that handles a failed backend call performs one cancelRequest (the
\* last entry of the context's history is removed, the pending buffer is kept) and
\* replies by the cause code of the failure: the timeout message for a connect
\* timeout, the refused message for a refused connection, the unknown-error message
\* for anything else; no other step produces one of these replies
C16_FailureReply ==
    [][/\ \A k \in calls :
             IsCancelOf(k) =>
                 /\ ev'.reply =
                        (IF ev'.cause = "UND_ERR_CONNECT_TIMEOUT" THEN ConnTimeout
                         ELSE IF ev'.cause = "ECONNREFUSED" THEN ConnRefused
                         ELSE UnknownError)
                 /\ heap[k.ctx].history # <<>>
                 /\ heap'[k.ctx].history =
                        SubSeq(heap[k.ctx].history, 1, Len(heap[k.ctx].history) - 1)
                 /\ heap'[k.ctx].tracedMsg = heap[k.ctx].tracedMsg
                 /\ trail'[k.id].outcome = "fail"
       /\ ev'.reply \in {ConnTimeout, ConnRefused, UnknownError} =>
             /\ ev'.op = "cancel"
             /\ \E k \in calls : IsCancelOf(k)]_vars

\* a call that failed with a cause code the catch block does not know was answered
\* with the unknown-error message, its user entry gone from history
C16_Witness ==
    /\ ev.op = "cancel"
    /\ ev.cause = "ECONNRESET"
    /\ ev.reply = UnknownError
    /\ heap[ev.ctx].history = <<>>
    /\ calls = {}

\* the reply of the middleware to an oversized message
ContentTooLong == [i18n |-> "ollama-chat.messages.contentTooLong", quote |-> 0, text |-> ""]

\* C17: the "content too long" reply is given exactly to the oversized messages that
\* meet the trigger condition: every oversized direct message, and every oversized
\* guild message that mentions the bot or begins with the prefix, gets it; an
\* oversized guild message that does neither gets no reply and goes to the next
\* handler; no other message gets it
C17_TooLongReplyIffTriggered ==
    [][/\ (IsMiddleware /\ Oversized /\ (~FromGuild \/ MentionsBot \/ Prefixed)) =>
             ev'.op = "tooLong" /\ ev'.reply = ContentTooLong
       /\ (IsMiddleware /\ Oversized /\ FromGuild /\ ~MentionsBot /\ ~Prefixed) =>
             ev'.op = "next" /\ ev'.reply = NoReply
       /\ ev'.reply = ContentTooLong =>
             IsMiddleware /\ Oversized /\ (~FromGuild \/ MentionsBot \/ Prefixed)]_vars

\* an oversized guild message that mentions another user first and then the bot was
\* passed to the next handler without a reply
C17_Witness ==
    /\ ev.op = "next"
    /\ ev.ats = <<"u1", "bot">>
    /\ Len(trail[ev.id].message.msg) > 100
    /\ ev.reply = NoReply
    /\ heap[ev.ctx].kind = "guild"

\* the messageIds of the messages in the pending buffer of a guild context, given
\* the record a of what was traced on it: the last 100 at most
PendingIds(a) ==
    {a.tracedIds[n] : n \in (Len(a.tracedIds) - Min(Len(a.tracedIds), 100) + 1)..Len(a.tracedIds)}

\* the turn before the handled message that last ran prepareRequest on the context o
\* (0 when there is none)
PreviousRequest(o) ==
    LET turns == {j \in DOMAIN trail : trail[j].ctx = o /\ trail[j].outcome \in {"await", "ok", "fail"}}
    IN  IF turns = {} THEN 0 ELSE CHOOSE j \in turns : \A other \in turns : other <= j

\* the messages traced on the context o after its previous prepareRequest, the handled
\* message included, but for those followed by 100 or more later ones
OwedToRequest(o) ==
    LET since == {i \in (PreviousRequest(o) + 1)..nextId :
                     trail'[i].ctx = o /\ Len(trail'[i].message.msg) <= 100}
    IN  {i \in since : Cardinality({j \in since : j > i}) < 100}

\* C18: under every interleaving of the messages of a guild, the request built by
\* prepareRequest holds every message traced on the context since its previous
\* prepareRequest (but for those pushed out by 100 or more later ones), and the pending
\* buffer is emptied only of messages that the request that has just succeeded held
C18_TracedReachesNextRequest ==
    [][/\ (IsMiddleware /\ FromGuild /\ BackendCalled) =>
             OwedToRequest(HandlingCtx) \subseteq PendingIds(aud'[HandlingCtx])
       /\ \A k \in calls :
             (IsFinishOf(k) /\ heap[k.ctx].kind = "guild") =>
                 \A i \in PendingIds(aud[k.ctx]) : i <= k.id]_vars

\* a guild message traced while a call was awaited is gone: the call succeeded, its
\* request held the first message alone, and the pending buffer is empty
C18_Witness ==
    /\ ev.op = "finish"
    /\ ev.id = 1
    /\ Len(trail) = 2
    /\ trail[2].ctx = ev.ctx
    /\ trail[2].outcome = "next"
    /\ Len(trail[2].message.msg) <= 100
    /\ heap[ev.ctx].kind = "guild"
    /\ heap[ev.ctx].tracedMsg = <<>>
    /\ heap[ev.ctx].history[1].content = StringifyArray(<<trail[1].message>>)

\* C19: under every interleaving, when prepareRequest runs the pending buffer holds
\* the message that triggered the turn as its newest element (one-to-one: the slot is
\* defined and is that message; guild: the buffer is not empty and ends with it), and
\* the user entry it appends encodes that buffer, never an undefined slot or an empty
\* buffer
C19_RequestHoldsTriggeringMessage ==
    [][(IsMiddleware /\ BackendCalled) =>
          /\ ~FromGuild =>
                 /\ heap'[HandlingCtx].tracedMsg # Undefined
                 /\ heap'[HandlingCtx].tracedMsg = Handling
                 /\ Last(heap'[HandlingCtx].history).content = StringifyUserMessage(Handling)
          /\ FromGuild =>
                 /\ heap'[HandlingCtx].tracedMsg # <<>>
                 /\ Last(heap'[HandlingCtx].tracedMsg) = Handling
                 /\ Last(heap'[HandlingCtx].history).content =
                        StringifyArray(heap'[HandlingCtx].tracedMsg)
          /\ Last(heap'[HandlingCtx].history).content \notin {UndefinedContent, "[]"}]_vars

\* a one-to-one context created by an oversized message, its slot undefined, has got
\* its first request, which encodes the second message
C19_Witness ==
    /\ ev.op = "await"
    /\ ev.id = 2
    /\ trail[1].ctx = ev.ctx
    /\ trail[1].outcome = "tooLong"
    /\ heap[ev.ctx].kind = "private"
    /\ heap[ev.ctx].tracedMsg = trail[2].message
    /\ heap[ev.ctx].history =
           <<[role |-> "user", content |-> StringifyUserMessage(trail[2].message)]>>

\* the conversation of the call k was reset while the call was awaited: the store no
\* longer holds the context the call captured
ResetInFlight(k) == chatContexts[k.source] # k.ctx

\* C20: the continuation of a backend call, finishRequest or cancelRequest, changes
\* the context it captured and nothing else: the store is as before and every other
\* context is as before; so when the conversation was reset while the call was
\* awaited, the discarded context is the one changed, no entry comes back into the
\* store, and a context created for the identifier after the reset is untouched
C20_LateCompletionHitsDiscarded ==
    [][\A k \in calls :
          (IsFinishOf(k) \/ IsCancelOf(k)) =>
              /\ chatContexts' = chatContexts
              /\ \A o \in DOMAIN heap \ {k.ctx} : heap'[o] = heap[o]
              /\ ResetInFlight(k) =>
                     /\ \A key \in Keys : chatContexts'[key] # k.ctx
                     /\ heap'[k.ctx].history # heap[k.ctx].history
                     /\ chatContexts[k.source] # 0 =>
                            /\ heap'[chatContexts[k.source]].history =
                                   heap[chatContexts[k.source]].history
                            /\ heap'[chatContexts[k.source]].tracedMsg =
                                   heap[chatContexts[k.source]].tracedMsg]_vars

\* a guild was reset while its first call was awaited and got a new context with the
\* second message; the first call has then succeeded on the discarded context, and
\* the new context still holds its own request and pending message
C20_Witness ==
    /\ ev.op = "finish"
    /\ ev.id = 1
    /\ ev.ctx = 1
    /\ chatContexts[ev.source] = 2
    /\ heap[1].kind = "guild"
    /\ Len(heap[1].history) = 2
    /\ heap[1].tracedMsg = <<>>
    /\ heap[2].tracedMsg = <<trail[2].message>>
    /\ heap[2].history =
           <<[role |-> "user", content |-> StringifyArray(<<trail[2].message>>)]>>
    /\ \E k \in calls : k.id = 2 /\ k.ctx = 2

============================================================================
